---- MODULE Spec2Model ----
(***************************************************************************)
(* Model of wallet/src/types.rs of grin: the output ledger (WalletData),   *)
(* its persistence under the wallet.lock advisory lock (with_wallet), the  *)
(* selection and child-index algorithms, the fee formula (tx_fee) and the  *)
(* partial-transaction codec (partial_tx_to_json, partial_tx_from_json).   *)
(***************************************************************************)
EXTENDS Integers, Sequences, FiniteSets, TLC

(***************************************************************************)
(* Bounds of the model.  The machine integers keep their wrap-around but   *)
(* at a reduced width: u32 is modelled with U32Bits bits, u64 / i64 with   *)
(* U64Bits bits, i32 with I32Bits bits and usize with USizeBits bits; a    *)
(* secret scalar is ScalarLen bytes long.  NumProcs processes enter        *)
(* with_wallet MaxCalls times in all; the ledgers drawn for select, for    *)
(* the mutators and for the spenders hold up to MaxOutputs entries and     *)
(* those drawn for next_child up to MaxChildOutputs.                       *)
(***************************************************************************)
U32Bits == 4

U64Bits == 7

I32Bits == 5

USizeBits == 6

ScalarLen == 2

NumProcs == 2

MaxCalls == 3

MaxOutputs == 2

MaxChildOutputs == 3

RECURSIVE Pow2(_)
Pow2(n) == IF n = 0 THEN 1 ELSE 2 * Pow2(n - 1)

U32Mod == Pow2(U32Bits)

U32Max == U32Mod - 1

U64Mod == Pow2(U64Bits)

U64Max == U64Mod - 1

I64Max == (U64Mod \div 2) - 1

I64Min == 0 - (U64Mod \div 2)

\* `x as i64` for a u64 x: the same bits read as two's complement.
AsI64(x) == IF x > I64Max THEN x - U64Mod ELSE x

\* The i64 that wrapping arithmetic leaves for the mathematical value d.
WrapI64(d) == AsI64(((d % U64Mod) + U64Mod) % U64Mod)

I32Mod == Pow2(I32Bits)

I32Max == (I32Mod \div 2) - 1

I32Min == 0 - (I32Mod \div 2)

USizeMax == Pow2(USizeBits) - 1

\* The i32 that wrapping arithmetic, or a cast to i32, leaves for the value d.
WrapI32(d) ==
    LET m == ((d % I32Mod) + I32Mod) % I32Mod
    IN  IF m > I32Max THEN m - I32Mod ELSE m

InI32(d) == I32Min <= d /\ d <= I32Max

DEFAULT_BASE_FEE == 10

\* Option<u64>
None == [some |-> FALSE]

Some(v) == [some |-> TRUE, val |-> v]

(***************************************************************************)
(* tx_fee.  The casts `as i32` keep the low bits and never panic; each of  *)
(* -1 * a, 4 * b, the two additions and weight * base_fee panics on        *)
(* overflow when checked (the build's overflow-checks) and wraps           *)
(* otherwise.  wrapped tells whether a cast or an operation wrapped on the *)
(* way to val.                                                             *)
(***************************************************************************)
TxFee(input_len, output_len, base_fee, checked) ==
    LET use_base_fee == IF base_fee.some THEN base_fee.val ELSE DEFAULT_BASE_FEE
        a == WrapI32(input_len)
        b == WrapI32(output_len)
        neg == (0 - 1) * a
        four == 4 * b
        sum1 == WrapI32(neg) + WrapI32(four)
        sum2 == WrapI32(sum1) + 1
        tx_weight == IF WrapI32(sum2) < 1 THEN 1 ELSE WrapI32(sum2)
        fee == tx_weight * use_base_fee
        overflow == \/ ~InI32(neg) \/ ~InI32(four) \/ ~InI32(sum1) \/ ~InI32(sum2)
                    \/ fee > U64Max
    IN  IF overflow /\ checked
        THEN [panic |-> TRUE]
        ELSE [panic |-> FALSE, val |-> fee % U64Mod,
              wrapped |-> overflow \/ a # input_len \/ b # output_len]

(***************************************************************************)
(* keychain::Identifier is a byte string; to_hex writes two lower-case     *)
(* hexadecimal digits per byte.                                            *)
(***************************************************************************)
HexDigits == <<"0", "1", "2", "3", "4", "5", "6", "7",
               "8", "9", "a", "b", "c", "d", "e", "f">>

RECURSIVE ToHex(_)
ToHex(bytes) ==
    IF bytes = << >> THEN ""
    ELSE HexDigits[(Head(bytes) \div 16) + 1] \o HexDigits[(Head(bytes) % 16) + 1]
         \o ToHex(Tail(bytes))

KeyId(i) == <<16 * i + 10>>

RootIds == {<<240>>, <<241>>}

OutputStatus == {"Unconfirmed", "Unspent", "Immature", "Locked", "Spent"}

\* struct OutputData
OutputData(root, key, n, v, st) ==
    [root_key_id |-> root, key_id |-> key, n_child |-> n, value |-> v,
     status |-> st, height |-> 0, lock_height |-> 0, zero_ok |-> FALSE]

\* HashMap::new(): the outputs map of a fresh WalletData
NoOutputs == [k \in {} |-> OutputData(<<0>>, <<0>>, 0, 0, "Unspent")]

\* mutant: lock leaves the status as it is
LockKeep(out) == out

\* OutputData::lock
Lock(out) == [out EXCEPT !.status = "Locked"]

\* mutant: an entry already stored under the key is kept, not replaced
AddOutputKeep(outputs, out) ==
    [k \in DOMAIN outputs \cup {ToHex(out.key_id)} |->
        IF k \in DOMAIN outputs THEN outputs[k] ELSE out]

\* WalletData::add_output: insert under the hex form of the entry's key_id
AddOutput(outputs, out) ==
    [k \in DOMAIN outputs \cup {ToHex(out.key_id)} |->
        IF k = ToHex(out.key_id) THEN out ELSE outputs[k]]

\* mutant: the stored value is not compared with the argument's
LockOutputAnyValue(outputs, out) ==
    IF ToHex(out.key_id) \in DOMAIN outputs
    THEN [outputs EXCEPT ![ToHex(out.key_id)] = Lock(@)]
    ELSE outputs

\* WalletData::lock_output
LockOutput(outputs, out) ==
    IF ToHex(out.key_id) \in DOMAIN outputs
    THEN IF outputs[ToHex(out.key_id)].value = out.value
         THEN [outputs EXCEPT ![ToHex(out.key_id)] = Lock(@)]
         ELSE outputs
    ELSE outputs

\* WalletData::get_output
GetOutput(outputs, key_id) ==
    IF ToHex(key_id) \in DOMAIN outputs
    THEN [found |-> TRUE, out |-> outputs[ToHex(key_id)]]
    ELSE [found |-> FALSE]

(***************************************************************************)
(* HashMap::values() visits the entries in an order the program does not   *)
(* control: every permutation of the keys is a possible iteration order.   *)
(***************************************************************************)
IterOrders(outputs) ==
    {o \in [1..Cardinality(DOMAIN outputs) -> DOMAIN outputs] :
        \A i, j \in DOMAIN o : i # j => o[i] # o[j]}

Values(outputs, order) == [i \in DOMAIN order |-> outputs[order[i]]]

(***************************************************************************)
(* WalletData::next_child.  checked is the build's overflow-checks         *)
(* setting: max_n + 1 panics when checked, wraps otherwise.                *)
(***************************************************************************)
RECURSIVE MaxNLoop(_, _, _, _)
MaxNLoop(vals, root_key_id, i, max_n) ==
    IF i > Len(vals) THEN max_n
    ELSE IF max_n < vals[i].n_child /\ vals[i].root_key_id = root_key_id
         THEN MaxNLoop(vals, root_key_id, i + 1, vals[i].n_child)
         ELSE MaxNLoop(vals, root_key_id, i + 1, max_n)

\* mutant: the largest index under the root is returned as it is, not + 1
NextChildNoInc(outputs, root_key_id, order, checked) ==
    [panic |-> FALSE, val |-> MaxNLoop(Values(outputs, order), root_key_id, 1, 0)]

NextChild(outputs, root_key_id, order, checked) ==
    LET max_n == MaxNLoop(Values(outputs, order), root_key_id, 1, 0)
    IN  IF max_n + 1 > U32Max /\ checked
        THEN [panic |-> TRUE]
        ELSE [panic |-> FALSE, val |-> (max_n + 1) % U32Mod]

(***************************************************************************)
(* WalletData::select.                                                     *)
(***************************************************************************)
RECURSIVE SelectLoop(_, _, _, _, _, _, _)
SelectLoop(vals, root_key_id, amount, checked, i, to_spend, input_total) ==
    IF i > Len(vals)
    THEN [panic |-> FALSE, to_spend |-> to_spend, input_total |-> input_total]
    ELSE IF vals[i].root_key_id = root_key_id /\ vals[i].status = "Unspent"
         THEN IF input_total + vals[i].value > U64Max /\ checked
              THEN [panic |-> TRUE]
              ELSE IF (input_total + vals[i].value) % U64Mod >= amount
                   THEN [panic |-> FALSE, to_spend |-> Append(to_spend, vals[i]),
                         input_total |-> (input_total + vals[i].value) % U64Mod]
                   ELSE SelectLoop(vals, root_key_id, amount, checked, i + 1,
                                   Append(to_spend, vals[i]),
                                   (input_total + vals[i].value) % U64Mod)
         ELSE SelectLoop(vals, root_key_id, amount, checked, i + 1,
                         to_spend, input_total)

\* (input_total as i64) - (amount as i64)
Remainder(input_total, amount, checked) ==
    LET d == AsI64(input_total) - AsI64(amount)
    IN  IF (d > I64Max \/ d < I64Min) /\ checked
        THEN [panic |-> TRUE]
        ELSE [panic |-> FALSE, val |-> WrapI64(d)]

Select(outputs, root_key_id, amount, order, checked) ==
    LET r == SelectLoop(Values(outputs, order), root_key_id, amount, checked,
                        1, << >>, 0)
    IN  IF r.panic THEN [panic |-> TRUE]
        ELSE LET rem == Remainder(r.input_total, amount, checked)
             IN  IF rem.panic THEN [panic |-> TRUE]
                 ELSE [panic |-> FALSE, to_spend |-> r.to_spend, rem |-> rem.val]

(***************************************************************************)
(* wallet.dat.  serde_json::to_vec_pretty writes one member per entry of   *)
(* the map and then closes the document; a JSON object's members carry no  *)
(* order, so the document is the set of its members.  from_reader accepts  *)
(* only a closed document and inserts its members into a new map.          *)
(***************************************************************************)
NoFile == [exists |-> FALSE]

\* File::create on an existing or a new path: an empty file
EmptyFile == [exists |-> TRUE, members |-> {}, closed |-> FALSE]

ToVecPretty(outputs) ==
    [exists |-> TRUE,
     members |-> {<<k, outputs[k]>> : k \in DOMAIN outputs},
     closed |-> TRUE]

\* what a write_all that fails part-way leaves in the file
PartialFile(part) == [exists |-> TRUE, members |-> part, closed |-> FALSE]

\* serde_json::from_reader
FromReader(file) ==
    IF file.closed
    THEN [ok |-> TRUE,
          outputs |-> [k \in {m[1] : m \in file.members} |->
                         (CHOOSE m \in file.members : m[1] = k)[2]]]
    ELSE [ok |-> FALSE]

\* WalletData::read; openFails is the outcome of File::open
Read(file, openFails) ==
    IF openFails THEN [ok |-> FALSE] ELSE FromReader(file)

\* mutant: always a brand new instance, the file is not read
ReadOrCreateNew(file, openFails) == [ok |-> TRUE, outputs |-> NoOutputs]

\* WalletData::read_or_create
ReadOrCreate(file, openFails) ==
    IF file.exists THEN Read(file, openFails)
    ELSE [ok |-> TRUE, outputs |-> NoOutputs]

(***************************************************************************)
(* The closures callers pass to with_wallet:                               *)
(*   alloc  n = next_child(root); add_output(entry with n_child = n)       *)
(*   peek   n = next_child(root), the ledger left as it is                 *)
(*   put    add_output(entry with the n_child a peek returned earlier)     *)
(*   spend  select(root, amount); lock_output(each entry returned)         *)
(***************************************************************************)
\* lock_output called with each entry of outs in turn
RECURSIVE LockAll(_, _)
LockAll(outputs, outs) ==
    IF outs = << >> THEN outputs
    ELSE LockAll(LockOutput(outputs, Head(outs)), Tail(outs))

ApplyFn(f, outputs, order, checked) ==
    IF f.kind = "spend"
    THEN LET sel == Select(outputs, f.root, f.amount, order, checked)
         IN  IF sel.panic THEN [panic |-> TRUE]
             ELSE [panic |-> FALSE, res |-> sel.rem,
                   picked |-> {ToHex(sel.to_spend[i].key_id) : i \in DOMAIN sel.to_spend},
                   outputs |-> LockAll(outputs, sel.to_spend)]
    ELSE IF f.kind = "put"
    THEN [panic |-> FALSE, res |-> f.n,
          outputs |-> AddOutput(outputs, OutputData(f.root, f.key, f.n, 1, "Unspent"))]
    ELSE LET n == NextChild(outputs, f.root, order, checked)
         IN  IF n.panic THEN [panic |-> TRUE]
             ELSE IF f.kind = "alloc"
                  THEN [panic |-> FALSE, res |-> n.val,
                        outputs |-> AddOutput(outputs,
                                      OutputData(f.root, f.key, n.val, 1, "Unspent"))]
                  ELSE [panic |-> FALSE, res |-> n.val, outputs |-> outputs]

VARIABLES
    lockFile,   \* wallet.lock exists
    datFile,    \* the content of wallet.dat
    proc,       \* per process: where it is in with_wallet, and its locals
    log,        \* the invocations that returned Ok, in the order they returned
    ncalls,     \* how many with_wallet invocations have been entered
    ledger,     \* the WalletData a function specification calls into
    call,       \* the last call of a function specification and what it returned
    added       \* per key, the entry last passed to add_output, and whether
                \* lock_output has applied to it since

vars == <<lockFile, datFile, proc, log, ncalls, ledger, call, added>>

Procs == 1..NumProcs

\* const retries limit of the acquisition loop: `if retries >= 3`
MaxRetries == 3

NoRet == [kind |-> "none"]

Ok(v) == [kind |-> "ok", val |-> v]

\* Error::WalletData(message); at names the message
Err(at) == [kind |-> "err", err |-> "WalletData", at |-> at]

NoFn == [kind |-> "none"]

NoHeld == [root |-> <<0>>, n |-> 0, valid |-> FALSE]

IdleProc ==
    [pc |-> "idle", retries |-> 0, wdat |-> NoOutputs, f |-> NoFn, res |-> 0,
     picked |-> {}, ret |-> NoRet, found |-> NoFile, held |-> NoHeld,
     afterCrash |-> FALSE, afterError |-> FALSE]

StoreInit ==
    /\ lockFile = FALSE
    /\ datFile = NoFile
    /\ proc = [p \in Procs |-> IdleProc]
    /\ log = << >>
    /\ ncalls = 0

\* the key a caller derives for a new entry: the first one not yet in the ledger
FreshKey(outputs) ==
    KeyId(CHOOSE i \in 1..(Cardinality(DOMAIN outputs) + 1) :
            /\ ToHex(KeyId(i)) \notin DOMAIN outputs
            /\ \A j \in 1..(i - 1) : ToHex(KeyId(j)) \in DOMAIN outputs)

Closures(p) ==
    {[kind |-> k, root |-> r, key |-> FreshKey(proc[p].wdat)] :
        k \in {"alloc", "peek"}, r \in RootIds}
    \cup (IF proc[p].held.valid
          THEN {[kind |-> "put", root |-> proc[p].held.root, n |-> proc[p].held.n,
                 key |-> FreshKey(proc[p].wdat)]}
          ELSE {})

\* with_wallet is entered: `let mut retries = 0`
Begin(p) ==
    /\ proc[p].pc = "idle"
    /\ ncalls < MaxCalls
    /\ ncalls' = ncalls + 1
    /\ proc' = [proc EXCEPT ![p] = [@ EXCEPT !.pc = "lock", !.retries = 0,
                    !.ret = NoRet,
                    !.afterCrash = \E q \in Procs : proc[q].pc = "crashed",
                    !.afterError = /\ lockFile
                                   /\ \A q \in Procs : proc[q].pc \in {"idle", "lock"}]]
    /\ UNCHANGED <<lockFile, datFile, log, ledger, call, added>>

\* mutant: create(true) in place of create_new(true) opens an existing lock file
CreateExisting(lock, denied) == ~denied

\* OpenOptions::new().write(true).create_new(true).open: fails on an existing file
CreateNew(lock, denied) == ~lock /\ ~denied

\* mutant: `retries > 3`, one attempt too many
GiveUpLate(retries) == retries > MaxRetries

GiveUp(retries) == retries >= MaxRetries

\* the caller's view of a return: a peek's Ok value is kept for a later put
Return(p, r) ==
    [proc[p] EXCEPT !.pc = "idle", !.ret = r, !.retries = 0, !.wdat = NoOutputs,
        !.f = NoFn, !.res = 0, !.picked = {}, !.found = NoFile,
        !.held = IF r.kind = "ok" /\ proc[p].f.kind = "peek"
                 THEN [root |-> proc[p].f.root, n |-> r.val, valid |-> TRUE]
                 ELSE IF r.kind = "ok" /\ proc[p].f.kind = "put" THEN NoHeld ELSE @]

\* mutant: a caller that gives up deletes the lock file on its way out
TryLockSteal(p) ==
    /\ proc[p].pc = "lock"
    /\ \E denied \in BOOLEAN :
         IF CreateNew(lockFile, denied)
         THEN /\ lockFile' = TRUE
              /\ proc' = [proc EXCEPT ![p] = [@ EXCEPT !.pc = "read",
                                                   !.retries = 0, !.found = datFile]]
         ELSE IF GiveUp(proc[p].retries)
              THEN /\ lockFile' = FALSE
                   /\ proc' = [proc EXCEPT ![p] = Return(p, Err("lock"))]
              ELSE /\ lockFile' = lockFile
                   /\ proc' = [proc EXCEPT ![p] = [@ EXCEPT !.retries = @ + 1]]
    /\ UNCHANGED <<datFile, log, ncalls, ledger, call, added>>

\* mutant: a caller out of retries takes the lock file for stale and removes it
TryLockBreak(p) ==
    /\ proc[p].pc = "lock"
    /\ \E denied \in BOOLEAN :
         IF CreateNew(lockFile, denied)
         THEN /\ lockFile' = TRUE
              /\ proc' = [proc EXCEPT ![p] = [@ EXCEPT !.pc = "read",
                                                   !.retries = 0, !.found = datFile]]
         ELSE IF GiveUp(proc[p].retries)
              THEN /\ lockFile' = FALSE
                   /\ proc' = [proc EXCEPT ![p] = [@ EXCEPT !.retries = 0]]
              ELSE /\ lockFile' = lockFile
                   /\ proc' = [proc EXCEPT ![p] = [@ EXCEPT !.retries = @ + 1]]
    /\ UNCHANGED <<datFile, log, ncalls, ledger, call, added>>

\* one turn of the acquisition loop
TryLock(p) ==
    /\ proc[p].pc = "lock"
    /\ \E denied \in BOOLEAN :
         IF CreateNew(lockFile, denied)
         THEN /\ lockFile' = TRUE
              /\ proc' = [proc EXCEPT ![p] = [@ EXCEPT !.pc = "read",
                                                   !.retries = 0, !.found = datFile]]
         ELSE /\ lockFile' = lockFile
              /\ IF GiveUp(proc[p].retries)
                 THEN proc' = [proc EXCEPT ![p] = Return(p, Err("lock"))]
                 ELSE proc' = [proc EXCEPT ![p] = [@ EXCEPT !.retries = @ + 1]]
    /\ UNCHANGED <<datFile, log, ncalls, ledger, call, added>>

\* mutant: a failed load deletes the lock file before it returns
LoadCleanup(p) ==
    /\ proc[p].pc = "read"
    /\ \E openFails \in BOOLEAN :
         LET r == ReadOrCreate(datFile, openFails)
         IN  IF r.ok
             THEN /\ proc' = [proc EXCEPT ![p] = [@ EXCEPT !.pc = "run", !.wdat = r.outputs]]
                  /\ lockFile' = lockFile
             ELSE /\ proc' = [proc EXCEPT ![p] = Return(p, Err("read"))]
                  /\ lockFile' = FALSE
    /\ UNCHANGED <<datFile, log, ncalls, ledger, call, added>>

\* `let mut wdat = WalletData::read_or_create(data_file_path)?`
Load(p) ==
    /\ proc[p].pc = "read"
    /\ \E openFails \in BOOLEAN :
         LET r == ReadOrCreate(datFile, openFails)
         IN  IF r.ok
             THEN proc' = [proc EXCEPT ![p] = [@ EXCEPT !.pc = "run", !.wdat = r.outputs]]
             ELSE proc' = [proc EXCEPT ![p] = Return(p, Err("read"))]
    /\ UNCHANGED <<lockFile, datFile, log, ncalls, ledger, call, added>>

\* what is left of a process that died inside with_wallet
Dead(p) == [IdleProc EXCEPT !.pc = "crashed"]

\* `let res = f(&mut wdat)`; f is the closure the caller passed, first looked at
\* here; a panic in f unwinds out of with_wallet
Run(p) ==
    /\ proc[p].pc = "run"
    /\ \E f \in Closures(p), order \in IterOrders(proc[p].wdat), checked \in BOOLEAN :
         LET r == ApplyFn(f, proc[p].wdat, order, checked)
         IN  IF r.panic
             THEN proc' = [proc EXCEPT ![p] = Dead(p)]
             ELSE proc' = [proc EXCEPT ![p] = [@ EXCEPT !.pc = "create", !.f = f,
                              !.wdat = r.outputs, !.res = r.res]]
    /\ UNCHANGED <<lockFile, datFile, log, ncalls, ledger, call, added>>

\* WalletData::write, File::create: truncates wallet.dat
Create(p) ==
    /\ proc[p].pc = "create"
    /\ \E createFails \in BOOLEAN :
         IF createFails
         THEN /\ proc' = [proc EXCEPT ![p] = Return(p, Err("create"))]
              /\ datFile' = datFile
         ELSE /\ proc' = [proc EXCEPT ![p] = [@ EXCEPT !.pc = "write"]]
              /\ datFile' = EmptyFile
    /\ UNCHANGED <<lockFile, log, ncalls, ledger, call, added>>

\* WalletData::write, to_vec_pretty and write_all
WriteAll(p) ==
    /\ proc[p].pc = "write"
    /\ LET doc == ToVecPretty(proc[p].wdat)
       IN  \/ /\ datFile' = doc
              /\ proc' = [proc EXCEPT ![p] = [@ EXCEPT !.pc = "unlock"]]
           \/ /\ datFile' = datFile
              /\ proc' = [proc EXCEPT ![p] = Return(p, Err("serialize"))]
           \/ \E part \in SUBSET doc.members :
                /\ datFile' = PartialFile(part)
                /\ proc' = [proc EXCEPT ![p] = Return(p, Err("write"))]
    /\ UNCHANGED <<lockFile, log, ncalls, ledger, call, added>>

\* mutant: the outcome of remove_file is ignored and Ok(res) returned
UnlockIgnore(p) ==
    /\ proc[p].pc = "unlock"
    /\ \E removeFails \in BOOLEAN :
         /\ lockFile' = (lockFile /\ removeFails)
         /\ proc' = [proc EXCEPT ![p] = Return(p, Ok(proc[p].res))]
         /\ log' = Append(log, [f |-> proc[p].f, val |-> proc[p].res,
                                picked |-> proc[p].picked])
    /\ UNCHANGED <<datFile, ncalls, ledger, call, added>>

\* fs::remove_file(lock_file_path) and `Ok(res)`
Unlock(p) ==
    /\ proc[p].pc = "unlock"
    /\ \E removeFails \in BOOLEAN :
         IF removeFails \/ ~lockFile
         THEN /\ proc' = [proc EXCEPT ![p] = Return(p, Err("unlock"))]
              /\ UNCHANGED <<lockFile, log>>
         ELSE /\ lockFile' = FALSE
              /\ proc' = [proc EXCEPT ![p] = Return(p, Ok(proc[p].res))]
              /\ log' = Append(log, [f |-> proc[p].f, val |-> proc[p].res,
                                picked |-> proc[p].picked])
    /\ UNCHANGED <<datFile, ncalls, ledger, call, added>>

\* the process dies between creating wallet.lock and deleting it; nothing is
\* cleaned up.  (A process that dies while still waiting for the lock leaves no
\* trace in the directory: it is a process that takes no further step.)
Crash(p) ==
    /\ proc[p].pc \in {"read", "run", "create", "write", "unlock"}
    /\ proc' = [proc EXCEPT ![p] = Dead(p)]
    /\ UNCHANGED <<lockFile, datFile, log, ncalls, ledger, call, added>>

NoCall == [op |-> "none"]

\* no add_output has been called
NoneAdded ==
    [k \in {} |-> [out |-> OutputData(<<0>>, <<0>>, 0, 0, "Unspent"), locked |-> FALSE]]

(***************************************************************************)
(* Spenders: the directory holds a wallet.dat with MaxOutputs Unspent      *)
(* entries of value 1 under the first root, and every caller passes a      *)
(* closure that selects an amount and locks what select returned.          *)
(***************************************************************************)
SpendClosures ==
    {[kind |-> "spend", root |-> <<240>>, amount |-> a] : a \in {1, 2}}
    \cup {[kind |-> "spend", root |-> <<241>>, amount |-> 1]}

Funded ==
    [h \in {ToHex(KeyId(i)) : i \in 1..MaxOutputs} |->
        LET i == CHOOSE j \in 1..MaxOutputs : ToHex(KeyId(j)) = h
        IN  OutputData(<<240>>, KeyId(i), i, 1, "Unspent")]

InitSpend ==
    /\ lockFile = FALSE
    /\ datFile = ToVecPretty(Funded)
    /\ proc = [p \in Procs |-> IdleProc]
    /\ log = << >>
    /\ ncalls = 0
    /\ ledger = Funded
    /\ call = NoCall
    /\ added = NoneAdded

\* `let res = f(&mut wdat)` with a spender's closure
RunSpend(p) ==
    /\ proc[p].pc = "run"
    /\ \E f \in SpendClosures, order \in IterOrders(proc[p].wdat), checked \in BOOLEAN :
         LET r == ApplyFn(f, proc[p].wdat, order, checked)
         IN  IF r.panic
             THEN proc' = [proc EXCEPT ![p] = Dead(p)]
             ELSE proc' = [proc EXCEPT ![p] = [@ EXCEPT !.pc = "create", !.f = f,
                              !.wdat = r.outputs, !.res = r.res, !.picked = r.picked]]
    /\ UNCHANGED <<lockFile, datFile, log, ncalls, ledger, call, added>>

NextSpend ==
    \E p \in Procs :
        \/ Begin(p)
        \/ TryLock(p)
        \/ Load(p)
        \/ RunSpend(p)
        \/ Create(p)
        \/ WriteAll(p)
        \/ Unlock(p)
        \/ Crash(p)

SpecSpend == InitSpend /\ [][NextSpend]_vars

Init == StoreInit /\ ledger = NoOutputs /\ call = NoCall /\ added = NoneAdded

Next ==
    \E p \in Procs :
        \/ Begin(p)
        \/ TryLock(p)
        \/ Load(p)
        \/ Run(p)
        \/ Create(p)
        \/ WriteAll(p)
        \/ Unlock(p)
        \/ Crash(p)

Spec == Init /\ [][Next]_vars

\* p is between its creation of wallet.lock and its deletion of it
InCS(p) == proc[p].pc \in {"read", "run", "create", "write", "unlock"}

\* p took a step
Stepped(p) == proc'[p] # proc[p]

\* the ledger the closures of the invocations in l leave, applied one after another
RECURSIVE Replay(_, _)
Replay(outputs, l) ==
    IF l = << >> THEN outputs
    ELSE Replay(ApplyFn(Head(l).f, outputs,
                        CHOOSE o \in IterOrders(outputs) : TRUE, FALSE).outputs,
                Tail(l))

\* wallet.dat as the invocations of log leave it: absent until the first one
SerialFile ==
    IF log = << >> THEN NoFile ELSE ToVecPretty(Replay(NoOutputs, log))

(***************************************************************************)
(* C1: at most one process at a time is between its successful exclusive   *)
(* creation of wallet.lock and its deletion of it, and the lock file       *)
(* exists for as long as one is.                                           *)
(***************************************************************************)
C1_MutualExclusion ==
    /\ Cardinality({p \in Procs : InCS(p)}) <= 1
    /\ (\E p \in Procs : InCS(p)) => lockFile

\* one process holds the lock while another has already failed to create it
C1_Witness ==
    \E p, q \in Procs :
        /\ proc[p].pc = "run"
        /\ proc[q].pc = "lock"
        /\ proc[q].retries >= 1

(***************************************************************************)
(* C2 as amended: the ledger an invocation loads is the one the successful *)
(* invocations before it leave when their closures are applied one after   *)
(* another in the order they held the lock, and whenever wallet.lock is    *)
(* absent wallet.dat is exactly that ledger's document.                    *)
(***************************************************************************)
C2_SerializedUpdates ==
    /\ \A p \in Procs : proc[p].pc = "run" => proc[p].wdat = Replay(NoOutputs, log)
    /\ ~lockFile => datFile = SerialFile

\* a second invocation has loaded what a successful one left, a third waits
C2_Witness ==
    \E p, q \in Procs :
        /\ Len(log) = 1
        /\ log[1].f.kind = "alloc"
        /\ proc[p].pc = "run"
        /\ Cardinality(DOMAIN proc[p].wdat) = 1
        /\ proc[q].pc = "lock" /\ proc[q].retries >= 1

(***************************************************************************)
(* C2 as stated: once every invocation has returned, wallet.dat (a         *)
(* complete document, or absent) holds the result of applying the closures *)
(* of the successful invocations, those that returned Ok, one after        *)
(* another.  Refuted by an invocation that persists its ledger and then    *)
(* fails to delete wallet.lock: it returns an error, its mutation stays.   *)
(***************************************************************************)
C2_FinalFileIsSerialResult ==
    ((\A p \in Procs : proc[p].pc = "idle") /\ ReadOrCreate(datFile, FALSE).ok) =>
        ReadOrCreate(datFile, FALSE).outputs = Replay(NoOutputs, log)

(***************************************************************************)
(* C3: a caller waiting for the lock has used at most 3 retries; each of   *)
(* its turns either creates the lock file, or uses one more retry, or, on  *)
(* the 4th failed attempt, returns the contention error: the wait ends     *)
(* after at most 4 attempts whether or not the lock file is ever removed.  *)
(***************************************************************************)
C3_BoundedAcquisition ==
    [][\A p \in Procs : proc[p].pc = "lock" =>
          /\ proc[p].retries <= MaxRetries
          /\ Stepped(p) =>
               \/ proc'[p].pc = "read" /\ ~lockFile /\ lockFile'
               \/ /\ proc'[p].pc = "lock"
                  /\ proc'[p].retries = proc[p].retries + 1
                  /\ proc'[p].retries <= MaxRetries
               \/ /\ proc[p].retries = MaxRetries
                  /\ proc'[p].pc = "idle"
                  /\ proc'[p].ret = Err("lock")]_vars

\* a caller has returned the contention error while the lock file is still there
C3_Witness ==
    \E p, q \in Procs :
        proc[p].pc = "idle" /\ proc[p].ret = Err("lock") /\ lockFile /\ InCS(q)

(***************************************************************************)
(* C4: a caller that does not get the lock changes neither wallet.dat nor  *)
(* wallet.lock on any of its turns, and returns the contention error       *)
(* without having loaded a ledger or run its closure.                      *)
(***************************************************************************)
C4_FailedCallerTouchesNothing ==
    [][\A p \in Procs :
          (proc[p].pc = "lock" /\ Stepped(p) /\ proc'[p].pc # "read") =>
              /\ datFile' = datFile
              /\ lockFile' = lockFile
              /\ log' = log
              /\ proc'[p].ret = Err("lock") =>
                    /\ proc[p].f = NoFn
                    /\ proc[p].wdat = NoOutputs
                    /\ proc'[p].held = proc[p].held]_vars

\* a caller has given up while another one, holding the lock, is about to persist
C4_Witness ==
    \E p, q \in Procs :
        /\ proc[p].ret = Err("lock")
        /\ proc[q].pc = "write"
        /\ lockFile
        /\ datFile = EmptyFile

(***************************************************************************)
(* C5: within one invocation the lock is created, then the ledger loaded   *)
(* (or created empty), then the closure run, then wallet.dat replaced,     *)
(* then the lock deleted; and when the call returns Ok(r), r is the        *)
(* closure's result on the ledger loaded, wallet.dat is the document of    *)
(* the ledger the closure left, and wallet.lock does not exist.            *)
(***************************************************************************)
C5_StepOrderAndPostcondition ==
    [][\A p \in Procs : Stepped(p) =>
          /\ proc'[p].pc = "read" => proc[p].pc = "lock" /\ ~lockFile /\ lockFile'
          /\ proc'[p].pc = "run" =>
                /\ proc[p].pc = "read"
                /\ proc'[p].wdat = IF proc[p].found.exists
                                   THEN FromReader(proc[p].found).outputs
                                   ELSE NoOutputs
          /\ proc'[p].pc = "create" => proc[p].pc = "run"
          /\ proc'[p].pc = "write" => proc[p].pc = "create"
          /\ proc'[p].pc = "unlock" =>
                proc[p].pc = "write" /\ datFile' = ToVecPretty(proc[p].wdat)
          /\ proc'[p].ret.kind = "ok" =>
                /\ proc[p].pc = "unlock"
                /\ lockFile /\ ~lockFile'
                /\ \E order \in IterOrders(ReadOrCreate(proc[p].found, FALSE).outputs) :
                     LET r == ApplyFn(proc[p].f,
                                      ReadOrCreate(proc[p].found, FALSE).outputs,
                                      order, FALSE)
                     IN  /\ proc'[p].ret.val = r.res
                         /\ datFile' = ToVecPretty(r.outputs)]_vars

\* an invocation that found a ledger and added an entry to it has returned Ok
C5_Witness ==
    \E p \in Procs :
        /\ proc[p].pc = "idle" /\ proc[p].ret.kind = "ok"
        /\ ~lockFile
        /\ datFile.exists /\ datFile.closed
        /\ Cardinality(datFile.members) = 2

(***************************************************************************)
(* C6: if persisting the ledger fails (at file creation, serialization or  *)
(* during the byte write), wallet.dat still holds exactly the content it   *)
(* had before the invocation.  Fails: File::create has truncated the file  *)
(* before to_vec_pretty or write_all can fail.                             *)
(***************************************************************************)
C6_FailedWriteKeepsFile ==
    [][\A p \in Procs :
          (Stepped(p) /\ proc[p].pc \in {"create", "write"} /\ proc'[p].ret.kind = "err")
              => datFile' = proc[p].found]_vars

(***************************************************************************)
(* C7: once a process has died between creating wallet.lock and deleting   *)
(* it, the lock file stays, wallet.dat is never changed again, no process  *)
(* enters the critical section, and every invocation that returns returns  *)
(* the contention error.                                                   *)
(***************************************************************************)
C7_OrphanLockIsForever ==
    [][(\E p \in Procs : proc[p].pc = "crashed") =>
          /\ lockFile /\ lockFile'
          /\ datFile' = datFile
          /\ \A q \in Procs :
                /\ proc[q].pc = "lock" => proc'[q].pc # "read"
                /\ (Stepped(q) /\ proc'[q].ret # NoRet) => proc'[q].ret = Err("lock")]_vars

\* an invocation entered after the crash has returned the contention error
C7_Witness ==
    \E p, q \in Procs :
        /\ proc[p].pc = "crashed"
        /\ proc[q].pc = "idle" /\ proc[q].afterCrash /\ proc[q].ret = Err("lock")
        /\ datFile.exists

Ledgers(n, templates) ==
    UNION {{[h \in {ToHex(k) : k \in S} |->
               LET k == CHOOSE x \in S : ToHex(x) = h
               IN  OutputData(t[k][1], k, t[k][2], t[k][3], t[k][4])] :
            t \in [S -> templates]} :
           S \in SUBSET {KeyId(i) : i \in 1..n}}

\* n_child of the entries drawn: the smallest, 1, 3, 5 and the largest u32
ChildInputs == {0, 1, 3, 5, U32Max}

InitNextChild ==
    /\ StoreInit
    /\ ledger \in Ledgers(MaxChildOutputs, RootIds \X ChildInputs \X {1} \X {"Unspent"})
    /\ call = NoCall
    /\ added = NoneAdded

CallNextChild ==
    /\ call = NoCall
    /\ \E root \in RootIds, order \in IterOrders(ledger), checked \in BOOLEAN :
         call' = [op |-> "next_child", root |-> root,
                  out |-> NextChild(ledger, root, order, checked)]
    /\ UNCHANGED <<ledger, added, lockFile, datFile, proc, log, ncalls>>

SpecNextChild == InitNextChild /\ [][CallNextChild]_vars

\* values of the entries drawn, and the amounts asked for
ValueInputs == {1, 2, I64Max + 1}

AmountInputs == {0, 1, 3, 4, I64Max, I64Max + 1, I64Max + 2, U64Max}

InitSelect ==
    /\ StoreInit
    /\ ledger \in Ledgers(MaxOutputs,
                    (RootIds \X {1} \X ValueInputs \X {"Unspent"})
                    \cup (RootIds \X {1} \X {2} \X (OutputStatus \ {"Unspent"})))
    /\ call = NoCall
    /\ added = NoneAdded

CallSelect ==
    /\ call = NoCall
    /\ \E root \in RootIds, amount \in AmountInputs,
          order \in IterOrders(ledger), checked \in BOOLEAN :
         call' = [op |-> "select", root |-> root, amount |-> amount,
                  out |-> Select(ledger, root, amount, order, checked)]
    /\ UNCHANGED <<ledger, added, lockFile, datFile, proc, log, ncalls>>

SpecSelect == InitSelect /\ [][CallSelect]_vars

(***************************************************************************)
(* The ledger's mutators called in any sequence on a ledger that starts    *)
(* empty: add_output, lock_output and get_output with every entry over the *)
(* keys, values and statuses below.                                        *)
(***************************************************************************)
LedgerKeys == {KeyId(i) : i \in 1..MaxOutputs}

LedgerEntries ==
    {OutputData(<<240>>, k, 1, v, st) : k \in LedgerKeys, v \in {1, 2}, st \in OutputStatus}

InitLedger ==
    /\ StoreInit
    /\ ledger = NoOutputs
    /\ call = NoCall
    /\ added = NoneAdded

CallAddOutput ==
    /\ \E out \in LedgerEntries :
         /\ ledger' = AddOutput(ledger, out)
         /\ call' = [op |-> "add_output", arg |-> out]
         /\ added' = [k \in DOMAIN added \cup {ToHex(out.key_id)} |->
                        IF k = ToHex(out.key_id) THEN [out |-> out, locked |-> FALSE]
                        ELSE added[k]]
    /\ UNCHANGED <<lockFile, datFile, proc, log, ncalls>>

\* lock_output reads the key_id and the value of its argument and nothing else
CallLockOutput ==
    /\ \E k \in LedgerKeys, v \in {1, 2} :
         LET out == OutputData(<<240>>, k, 1, v, "Unspent")
         IN  /\ ledger' = LockOutput(ledger, out)
             /\ call' = [op |-> "lock_output", arg |-> out]
             /\ added' = IF ToHex(k) \in DOMAIN ledger /\ ledger[ToHex(k)].value = v
                         THEN [added EXCEPT ![ToHex(k)].locked = TRUE]
                         ELSE added
    /\ UNCHANGED <<lockFile, datFile, proc, log, ncalls>>

CallGetOutput ==
    /\ \E k \in LedgerKeys :
         call' = [op |-> "get_output", arg |-> k, out |-> GetOutput(ledger, k)]
    /\ UNCHANGED <<ledger, added, lockFile, datFile, proc, log, ncalls>>

NextLedger == CallAddOutput \/ CallLockOutput \/ CallGetOutput

SpecLedger == InitLedger /\ [][NextLedger]_vars

(***************************************************************************)
(* tx_fee called once with counts up to the largest usize (among them the  *)
(* counts the spec's examples use and those around the i32 range) and      *)
(* with no base fee or a base fee up to the largest u64.                   *)
(***************************************************************************)
CountInputs == {0, 1, 2, 10, I32Max, I32Max + 1, I32Mod, USizeMax}

BaseFeeInputs ==
    {None} \cup {Some(v) : v \in {0, 1, DEFAULT_BASE_FEE, (U64Mod \div 4), U64Max}}

InitTxFee ==
    /\ StoreInit
    /\ ledger = NoOutputs
    /\ call = NoCall
    /\ added = NoneAdded

CallTxFee ==
    /\ call = NoCall
    /\ \E input_len \in CountInputs, output_len \in CountInputs,
          base_fee \in BaseFeeInputs, checked \in BOOLEAN :
         call' = [op |-> "tx_fee", input_len |-> input_len, output_len |-> output_len,
                  base_fee |-> base_fee,
                  out |-> TxFee(input_len, output_len, base_fee, checked)]
    /\ UNCHANGED <<ledger, added, lockFile, datFile, proc, log, ncalls>>

SpecTxFee == InitTxFee /\ [][CallTxFee]_vars

(***************************************************************************)
(* The partial-transaction codec.  A text is a sequence of characters (hex *)
(* strings) or of JSON tokens (the envelope).  The collaborators the codec *)
(* calls are outside this file: util (hex), core::ser (the transaction's   *)
(* binary form) and keychain (the blinding factor's scalar).               *)
(***************************************************************************)
\* util::to_hex: two lower-case hexadecimal digits per byte
RECURSIVE UtilToHex(_)
UtilToHex(bytes) ==
    IF bytes = << >> THEN << >>
    ELSE <<HexDigits[(Head(bytes) \div 16) + 1], HexDigits[(Head(bytes) % 16) + 1]>>
         \o UtilToHex(Tail(bytes))

IsHexDigit(c) == \E i \in DOMAIN HexDigits : HexDigits[i] = c

HexVal(c) == (CHOOSE i \in DOMAIN HexDigits : HexDigits[i] = c) - 1

\* util::from_hex: the bytes of a text of hexadecimal digit pairs, a
\* num::ParseIntError for any other text
UtilFromHex(hex_str) ==
    IF Len(hex_str) % 2 = 1 \/ \E i \in DOMAIN hex_str : ~IsHexDigit(hex_str[i])
    THEN [ok |-> FALSE, err |-> "num::ParseIntError"]
    ELSE [ok |-> TRUE,
          val |-> [i \in 1..(Len(hex_str) \div 2) |->
                      16 * HexVal(hex_str[2 * i - 1]) + HexVal(hex_str[2 * i])]]

\* a secret scalar: ScalarLen bytes, not zero and below the group order (here:
\* not all bytes 255)
ValidScalar(bytes) ==
    /\ Len(bytes) = ScalarLen
    /\ \E i \in DOMAIN bytes : bytes[i] # 0
    /\ \E i \in DOMAIN bytes : bytes[i] # 255

\* keychain::BlindingFactor::from_slice; err_type is the error type of its
\* signature, keychain::Error or secp::Error
BlindingFromSlice(bytes, err_type) ==
    IF ValidScalar(bytes) THEN [ok |-> TRUE, val |-> [secret_key |-> bytes]]
    ELSE [ok |-> FALSE, err |-> err_type]

\* ser::ser_vec of a transaction: the two counts, then one byte per input and output
SerVec(tx) == <<tx.inputs, tx.outputs>> \o [i \in 1..(tx.inputs + tx.outputs) |-> 1]

\* ser::deserialize of a transaction
Deserialize(bytes) ==
    IF /\ Len(bytes) >= 2
       /\ Len(bytes) = 2 + bytes[1] + bytes[2]
       /\ \A i \in 3..Len(bytes) : bytes[i] = 1
    THEN [ok |-> TRUE, val |-> [inputs |-> bytes[1], outputs |-> bytes[2]]]
    ELSE [ok |-> FALSE, err |-> "ser::Error"]

\* serde_json::to_string_pretty of a JSONPartialTx
ToStringPretty(partial_tx) ==
    <<"{", "amount", partial_tx.amount, "blind_sum", partial_tx.blind_sum,
      "tx", partial_tx.tx, "}">>

\* serde_json::from_str into a JSONPartialTx
FromStr(json_str) ==
    IF /\ Len(json_str) = 8
       /\ json_str[1] = "{" /\ json_str[8] = "}"
       /\ json_str[2] = "amount" /\ json_str[4] = "blind_sum" /\ json_str[6] = "tx"
       /\ json_str[3] \in 0..U64Max
    THEN [ok |-> TRUE, val |-> [amount |-> json_str[3], blind_sum |-> json_str[5],
                                tx |-> json_str[7]]]
    ELSE [ok |-> FALSE, err |-> "serde_json::Error"]

\* impl From<...> for Error: the variant of Error each foreign error becomes
ErrorFrom(err_type) ==
    CASE err_type = "keychain::Error" -> "Keychain"
      [] err_type = "secp::Error" -> "Secp"
      [] err_type = "transaction::Error" -> "Transaction"
      [] err_type = "serde_json::Error" -> "Format"
      [] err_type = "num::ParseIntError" -> "Format"
      [] err_type = "api::Error" -> "Node"

\* mutant: the amount is left out of the envelope
PartialTxToJsonNoAmount(receive_amount, blind_sum, tx) ==
    ToStringPretty([amount |-> 0,
                    blind_sum |-> UtilToHex(blind_sum.secret_key),
                    tx |-> UtilToHex(SerVec(tx))])

\* partial_tx_to_json
PartialTxToJson(receive_amount, blind_sum, tx) ==
    ToStringPretty([amount |-> receive_amount,
                    blind_sum |-> UtilToHex(blind_sum.secret_key),
                    tx |-> UtilToHex(SerVec(tx))])

\* partial_tx_from_json
PartialTxFromJson(json_str, err_type) ==
    LET partial_tx == FromStr(json_str)
        blind_bin == UtilFromHex(partial_tx.val.blind_sum)
        blinding == BlindingFromSlice(blind_bin.val, err_type)
        tx_bin == UtilFromHex(partial_tx.val.tx)
        tx == Deserialize(tx_bin.val)
    IN  IF ~partial_tx.ok THEN [ok |-> FALSE, err |-> ErrorFrom(partial_tx.err)]
        ELSE IF ~blind_bin.ok THEN [ok |-> FALSE, err |-> ErrorFrom(blind_bin.err)]
        ELSE IF ~blinding.ok THEN [ok |-> FALSE, err |-> ErrorFrom(blinding.err)]
        ELSE IF ~tx_bin.ok THEN [ok |-> FALSE, err |-> ErrorFrom(tx_bin.err)]
        ELSE IF ~tx.ok THEN [ok |-> FALSE, err |-> "Format"]
        ELSE [ok |-> TRUE, val |-> <<partial_tx.val.amount, blinding.val, tx.val>>]

(***************************************************************************)
(* The codec called once: an envelope is encoded and decoded again, or a   *)
(* text is decoded that is right or wrong in each of its layers.           *)
(***************************************************************************)
AmountValues == {0, 1, U64Max}

BlindingFactors ==
    {[secret_key |-> [i \in 1..ScalarLen |-> b]] : b \in {1, 171}}
    \cup {[secret_key |-> [i \in 1..ScalarLen |-> IF i = 1 THEN 0 ELSE 254]]}

Transactions == {[inputs |-> 1, outputs |-> 2], [inputs |-> 0, outputs |-> 0]}

ErrTypes == {"keychain::Error", "secp::Error"}

\* texts for the blind_sum field: right ones, ones that are not hex, and hex of
\* bytes that are no scalar (zero, the order or above, too short, too long)
BlindSumTexts ==
    {UtilToHex(b.secret_key) : b \in BlindingFactors}
    \cup {<<"0", "g">>, <<"0", "1", "2">>}
    \cup {UtilToHex([i \in 1..ScalarLen |-> 0]), UtilToHex([i \in 1..ScalarLen |-> 255]),
          UtilToHex([i \in 1..(ScalarLen - 1) |-> 1]),
          UtilToHex([i \in 1..(ScalarLen + 1) |-> 1])}

\* texts for the tx field: right ones, ones that are not hex, and hex of bytes
\* that are no transaction (truncated, empty, a wrong body)
TxTexts ==
    {UtilToHex(SerVec(t)) : t \in Transactions}
    \cup {<<"z", "z">>, <<"a">>}
    \cup {UtilToHex(<<1, 2, 1, 1>>), UtilToHex(<< >>), UtilToHex(<<1, 0, 7>>)}

\* envelopes: well-formed ones, and ones that are no JSONPartialTx (cut short,
\* empty, a field under another name, an amount that is no u64)
JsonTexts ==
    LET good == {ToStringPretty([amount |-> a, blind_sum |-> b, tx |-> t]) :
                    a \in AmountValues, b \in BlindSumTexts, t \in TxTexts}
    IN  good
        \cup {SubSeq(g, 1, 7) : g \in good}
        \cup {<< >>}
        \cup {[g EXCEPT ![6] = "transaction"] : g \in good}
        \cup {[g EXCEPT ![3] = U64Max + 1] : g \in good}

InitCodec ==
    /\ StoreInit
    /\ ledger = NoOutputs
    /\ call = NoCall
    /\ added = NoneAdded

CallRoundTrip ==
    /\ call = NoCall
    /\ \E a \in AmountValues, b \in BlindingFactors, t \in Transactions,
          err_type \in ErrTypes :
         call' = [op |-> "round_trip", amount |-> a, blind_sum |-> b, tx |-> t,
                  out |-> PartialTxFromJson(PartialTxToJson(a, b, t), err_type)]
    /\ UNCHANGED <<ledger, added, lockFile, datFile, proc, log, ncalls>>

CallFromJson ==
    /\ call = NoCall
    /\ \E json_str \in JsonTexts, err_type \in ErrTypes :
         call' = [op |-> "partial_tx_from_json", json_str |-> json_str,
                  out |-> PartialTxFromJson(json_str, err_type)]
    /\ UNCHANGED <<ledger, added, lockFile, datFile, proc, log, ncalls>>

NextCodec == CallRoundTrip \/ CallFromJson

SpecCodec == InitCodec /\ [][NextCodec]_vars

\* the entries select may return: those under root with status Unspent
Eligible(outputs, root) ==
    {outputs[k] : k \in {h \in DOMAIN outputs :
        outputs[h].root_key_id = root /\ outputs[h].status = "Unspent"}}

\* the sum, as a mathematical integer, of the values of the entries stored under keys
RECURSIVE SumValues(_, _)
SumValues(outputs, keys) ==
    IF keys = {} THEN 0
    ELSE LET k == CHOOSE x \in keys : TRUE
         IN  outputs[k].value + SumValues(outputs, keys \ {k})

TotalUnspent(outputs, root) ==
    SumValues(outputs, {h \in DOMAIN outputs :
        outputs[h].root_key_id = root /\ outputs[h].status = "Unspent"})

ChildrenOf(outputs, root) ==
    {outputs[k].n_child : k \in {h \in DOMAIN outputs : outputs[h].root_key_id = root}}

SetMax(S) == CHOOSE x \in S : \A y \in S : y <= x

Range(seq) == {seq[i] : i \in DOMAIN seq}

(***************************************************************************)
(* C9: next_child(root) returns 1 if the ledger has no entry under root,   *)
(* and otherwise 1 + the largest n_child among the entries under root, so  *)
(* a value strictly greater than the n_child of every entry under root.    *)
(* Fails for an entry with n_child = u32::MAX: max_n + 1 overflows.        *)
(***************************************************************************)
C9_NextChildIsMaxPlusOne ==
    call.op = "next_child" =>
        /\ ~call.out.panic
        /\ call.out.val = IF ChildrenOf(ledger, call.root) = {} THEN 1
                          ELSE 1 + SetMax(ChildrenOf(ledger, call.root))
        /\ \A n \in ChildrenOf(ledger, call.root) : call.out.val > n

(***************************************************************************)
(* C10: if the total value of the Unspent entries under root is less than  *)
(* amount, select(root, amount) returns a negative remainder and exactly   *)
(* the Unspent entries under root.  Fails for amount >= 2^63, which        *)
(* `amount as i64` turns into a negative number.                           *)
(***************************************************************************)
C10_InsufficientFundsNegative ==
    (call.op = "select" /\ TotalUnspent(ledger, call.root) < call.amount) =>
        /\ ~call.out.panic
        /\ call.out.rem < 0
        /\ Range(call.out.to_spend) = Eligible(ledger, call.root)

\* the sum, as a mathematical integer, of the values of a sequence of entries
RECURSIVE SumSeq(_)
SumSeq(outs) == IF outs = << >> THEN 0 ELSE Head(outs).value + SumSeq(Tail(outs))

(***************************************************************************)
(* C11: whatever the iteration order, the entries select(root, amount)     *)
(* returns are distinct entries of the ledger, all under root and all      *)
(* Unspent, and the remainder returned is the sum of their values minus    *)
(* amount, as a signed integer.  Fails where C10 fails: `amount as i64`    *)
(* and `input_total as i64` change the sign of values >= 2^63, and the     *)
(* subtraction (or the running sum) overflows.                             *)
(***************************************************************************)
C11_SelectResultConsistent ==
    call.op = "select" =>
        /\ ~call.out.panic
        /\ Cardinality(Range(call.out.to_spend)) = Len(call.out.to_spend)
        /\ Range(call.out.to_spend) \subseteq Eligible(ledger, call.root)
        /\ call.out.rem = SumSeq(call.out.to_spend) - call.amount

(***************************************************************************)
(* C12: lock_output(out) leaves the whole ledger as it was when out's key  *)
(* is not in the ledger or the stored value differs from out.value; when   *)
(* it applies, the ledger keeps its keys, every other entry is unchanged   *)
(* and the entry differs from what it was in its status field at most.     *)
(***************************************************************************)
C12_LockOutputFrame ==
    [][call'.op = "lock_output" =>
        LET h == ToHex(call'.arg.key_id)
        IN  IF h \notin DOMAIN ledger
            THEN ledger' = ledger
            ELSE IF ledger[h].value # call'.arg.value
            THEN ledger' = ledger
            ELSE /\ DOMAIN ledger' = DOMAIN ledger
                 /\ \A k \in DOMAIN ledger \ {h} : ledger'[k] = ledger[k]
                 /\ ledger'[h] = [ledger[h] EXCEPT !.status = ledger'[h].status]]_vars

\* a lock_output that applied to an Unspent entry, beside another entry it left alone
C12_Witness ==
    /\ call.op = "lock_output"
    /\ LET h == ToHex(call.arg.key_id)
       IN  /\ h \in DOMAIN ledger
           /\ ledger[h].value = call.arg.value
           /\ added[h].locked /\ added[h].out.status = "Unspent"
           /\ ledger[h].status = "Locked"
           /\ \E k \in DOMAIN ledger \ {h} : ledger[k].status = "Spent"

\* every entry is stored under the hex form of its own key_id, so that no two
\* entries share a key_id
StoredUnderOwnKey(outputs) ==
    /\ \A h \in DOMAIN outputs : h = ToHex(outputs[h].key_id)
    /\ \A h1, h2 \in DOMAIN outputs : h1 # h2 => outputs[h1].key_id # outputs[h2].key_id

(***************************************************************************)
(* C13 as stated: after any sequence of add_output and lock_output calls   *)
(* from the empty ledger every entry is stored under the hex form of its   *)
(* own key_id, no two entries share a key_id, and get_output(k) returns    *)
(* the entry most recently passed to add_output with key_id k, or          *)
(* not-found if none was.  Violated: a lock_output since that add_output   *)
(* has set the stored entry's status to Locked.                            *)
(***************************************************************************)
C13_GetReturnsLastAdded ==
    /\ StoredUnderOwnKey(ledger)
    /\ call.op = "get_output" =>
         call.out = IF ToHex(call.arg) \in DOMAIN added
                    THEN [found |-> TRUE, out |-> added[ToHex(call.arg)].out]
                    ELSE [found |-> FALSE]

(***************************************************************************)
(* C13 amended: as above, but get_output(k) returns the entry most         *)
(* recently passed to add_output with key_id k with its status set to      *)
(* Locked if a lock_output with that key_id and that entry's value was     *)
(* called since, and exactly that entry otherwise.                         *)
(***************************************************************************)
C13_GetReturnsLastAddedOrLocked ==
    /\ StoredUnderOwnKey(ledger)
    /\ call.op = "get_output" =>
         call.out = IF ToHex(call.arg) \in DOMAIN added
                    THEN [found |-> TRUE,
                          out |-> IF added[ToHex(call.arg)].locked
                                  THEN [added[ToHex(call.arg)].out EXCEPT !.status = "Locked"]
                                  ELSE added[ToHex(call.arg)].out]
                    ELSE [found |-> FALSE]

\* get_output finds an entry that was added Unspent and locked since, beside a
\* second entry
C13_Witness ==
    /\ call.op = "get_output"
    /\ call.out.found
    /\ added[ToHex(call.arg)].locked
    /\ added[ToHex(call.arg)].out.status = "Unspent"
    /\ Cardinality(DOMAIN ledger) > 1

(***************************************************************************)
(* C18: the only status change lock_output makes is Unspent -> Locked: an  *)
(* entry that is Unconfirmed, Immature or Spent keeps its status over any  *)
(* lock_output, and a Locked one stays Locked.  Violated: lock() assigns   *)
(* Locked whatever the status was.                                         *)
(***************************************************************************)
C18_OnlyUnspentBecomesLocked ==
    [][call'.op = "lock_output" =>
        \A h \in DOMAIN ledger :
            ledger'[h].status # ledger[h].status =>
                ledger[h].status = "Unspent" /\ ledger'[h].status = "Locked"]_vars

\* the base fee tx_fee is to use: the one given, or the default
UseBaseFee(base_fee) == IF base_fee.some THEN base_fee.val ELSE DEFAULT_BASE_FEE

\* max(1, 4 * output_count - input_count + 1) over the mathematical integers
Weight(input_count, output_count) ==
    IF 4 * output_count - input_count + 1 < 1 THEN 1
    ELSE 4 * output_count - input_count + 1

(***************************************************************************)
(* C14: tx_fee(input_count, output_count, base_fee) returns                *)
(* max(1, 4 * output_count - input_count + 1) * base_fee, with base_fee 10 *)
(* when none is given.  Violated by the overflows of C15; it holds for     *)
(* counts within i32 whose fee fits u64, the spec's two examples included. *)
(***************************************************************************)
C14_TxFeeFormula ==
    call.op = "tx_fee" =>
        /\ ~call.out.panic
        /\ call.out.val = Weight(call.input_len, call.output_len) * UseBaseFee(call.base_fee)

(***************************************************************************)
(* C15: for all counts, those beyond the i32 range included, and every u64 *)
(* base_fee, the fee tx_fee returns is at least base_fee and is not the    *)
(* result of a cast or an operation that wrapped.                          *)
(***************************************************************************)
C15_FeeFloorNoWrap ==
    (call.op = "tx_fee" /\ ~call.out.panic) =>
        /\ call.out.val >= UseBaseFee(call.base_fee)
        /\ ~call.out.wrapped

(***************************************************************************)
(* C16: for every valid amount, blinding factor and transaction,           *)
(* partial_tx_from_json(partial_tx_to_json(a, b, t)) succeeds and returns  *)
(* exactly (a, b, t), hex and the transaction's serialization being        *)
(* inverse of their decoders.                                              *)
(***************************************************************************)
C16_CodecRoundTrip ==
    call.op = "round_trip" =>
        call.out = [ok |-> TRUE, val |-> <<call.amount, call.blind_sum, call.tx>>]

\* a round trip of the largest amount with a transaction that has inputs and outputs
C16_Witness ==
    /\ call.op = "round_trip"
    /\ call.amount = U64Max
    /\ call.tx.inputs > 0 /\ call.tx.outputs > 0
    /\ call.out.ok

(***************************************************************************)
(* C17: partial_tx_from_json fails with Error::Format whenever it fails:   *)
(* on a text that is no JSON envelope, on a blind_sum or tx that is not    *)
(* hex, on blind_sum bytes that are no valid scalar, on tx bytes that are  *)
(* no transaction.  Violated: the error of BlindingFactor::from_slice is   *)
(* converted by From into Error::Secp or Error::Keychain.                  *)
(***************************************************************************)
C17_DecodeFailuresAreFormat ==
    (call.op = "partial_tx_from_json" /\ ~call.out.ok) => call.out.err = "Format"

\* the entries the invocations that returned Ok were given by select
PickedByLog == UNION {log[i].picked : i \in DOMAIN log}

(***************************************************************************)
(* C19: with spenders that select and then lock every entry returned, all  *)
(* inside one with_wallet invocation, no entry is returned by select in    *)
(* two invocations that succeed, and an entry that an earlier successful   *)
(* invocation locked is not returned to an invocation that runs later.     *)
(***************************************************************************)
C19_NoDoubleSelection ==
    /\ \A i, j \in DOMAIN log : i # j => log[i].picked \cap log[j].picked = {}
    /\ \A p \in Procs :
         proc[p].pc \in {"create", "write", "unlock"} =>
             proc[p].picked \cap PickedByLog = {}

\* two spenders have succeeded, each with an entry of its own, and a third
\* select has found nothing left to return
C19_Witness ==
    /\ Len(log) >= 2
    /\ log[1].picked # {} /\ log[2].picked # {}
    /\ \E p \in Procs :
         /\ proc[p].pc = "create"
         /\ proc[p].f.root = <<240>>
         /\ proc[p].picked = {}

\* wallet.lock exists and no process is between creating and deleting it
OrphanLock == lockFile /\ \A q \in Procs : ~InCS(q)

(***************************************************************************)
(* C20: a with_wallet invocation that has created wallet.lock and then     *)
(* fails to load wallet.dat, or to persist it, returns Error::WalletData   *)
(* with wallet.lock left in place; on a load failure the closure has not   *)
(* run and wallet.dat is as it was.  From then on wallet.lock stays, with  *)
(* no crash involved, and every invocation that returns returns the        *)
(* contention error.                                                       *)
(***************************************************************************)
C20_ErrorReturnKeepsLock ==
    [][/\ \A p \in Procs :
            (InCS(p) /\ proc'[p].pc = "idle" /\ proc'[p].ret.kind = "err") =>
                /\ proc'[p].ret.err = "WalletData"
                /\ lockFile'
                /\ OrphanLock'
                /\ log' = log
                /\ proc[p].pc = "read" =>
                       proc[p].f = NoFn /\ proc'[p].ret = Err("read") /\ datFile' = datFile
       /\ OrphanLock =>
            /\ OrphanLock'
            /\ \A q \in Procs :
                 (Stepped(q) /\ proc'[q].pc = "idle") => proc'[q].ret = Err("lock")]_vars

\* no process has crashed; one invocation failed to load wallet.dat and an
\* invocation entered after that has returned the contention error
C20_Witness ==
    /\ \A q \in Procs : proc[q].pc # "crashed"
    /\ \E p, q \in Procs :
         /\ proc[p].pc = "idle" /\ proc[p].ret = Err("read")
         /\ proc[q].pc = "idle" /\ proc[q].ret = Err("lock") /\ proc[q].afterError

====
